---- MODULE Spec2Model ----
(***************************************************************************)
(* Model of scripts/run_uda_ner.py: the label vocabulary (LabelVocab), the  *)
(* word-to-subword feature conversion with the reconstruction done by       *)
(* write_predictions, and the control flow of main() (validation, set-up,   *)
(* the training loop with gradient accumulation, periodic evaluation,       *)
(* early stopping and checkpointing, and the final prediction phase).       *)
(*                                                                          *)
(* Three specifications share the module:                                   *)
(*   SpecVocab  the LabelVocab object under its update()/build() interface  *)
(*   SpecFeat   one example through convert_*_examples_to_features and      *)
(*              write_predictions                                           *)
(*   Spec       one run of main()                                           *)
(* Python lists are sequences indexed from 1; list position p of the source *)
(* is index p + 1 here.  Label ids and original-word indices keep the       *)
(* source's 0-based values.                                                 *)
(***************************************************************************)
EXTENDS Integers, Sequences, FiniteSets, TLC

\* ------------------------------------------------------------------ bounds
MaxWords == 2
MaxPieces == 2
MaxSeqLength == 7
MaxLabelList == 2
MaxBuilds == 2
MaxGAS == 2
MaxEpochs == 11
MaxBatches == 3
MaxF1 == 2
MaxExamples == 4
MaxTrainBatch == 4
MaxStepEpochs == 2
MaxStepBatches == 2
MaxUnsupBatch == 2
MaxUnsupSeqLength == 4

\* ------------------------------------------------------- general helpers
Range(s) == {s[i] : i \in DOMAIN s}

Max(a, b) == IF a >= b THEN a ELSE b

Min(a, b) == IF a <= b THEN a ELSE b

SeqsUpTo(S, lo, hi) == UNION {[1..n -> S] : n \in lo..hi}

\* list[:k] of Python, k of either sign
PySliceTo(s, k) ==
    IF k >= 0 THEN SubSeq(s, 1, Min(k, Len(s)))
    ELSE SubSeq(s, 1, Max(0, Len(s) + k))

RECURSIVE Flatten(_)
Flatten(ss) == IF ss = <<>> THEN <<>> ELSE Head(ss) \o Flatten(Tail(ss))

\* ------------------------------------------------------------ LabelVocab
\* The label strings of the corpora, and their order under Python's sorted()
\* (code-point order: "B-..." < "I-..." < "O" < "S-...").
Labels == {"B-LOC", "B-PER", "I-PER", "O", "S-PER"}

LabelOrder == <<"B-LOC", "B-PER", "I-PER", "O", "S-PER">>

sorted(S) == SelectSeq(LabelOrder, LAMBDA l : l \in S)

\* mutant: the labels merely sorted, "O" not moved to the front
build_labels_sorted_only(ls) == sorted(ls \cup {"O"})

\* LabelVocab.build, line 105
build_labels(ls) == <<"O">> \o sorted(ls \ {"O"})

\* LabelVocab.build, line 106: {v: k for k, v in enumerate(self.labels)}
build_labels_dict(labs) ==
    [l \in Range(labs) |-> (CHOOSE i \in DOMAIN labs : labs[i] = l) - 1]

\* LabelVocab.convert_labels_to_ids (a KeyError when a label is not a key)
convert_labels_to_ids(dict, ls) == [i \in DOMAIN ls |-> dict[ls[i]]]

\* LabelVocab.convert_ids_to_labels
convert_ids_to_labels(labs, ids) == [i \in DOMAIN ids |-> labs[ids[i] + 1]]

\* LabelVocab.__len__, lines 114-115
LabelVocab_len(ls) == Cardinality(ls)

VARIABLES
    label_set,      \* LabelVocab.label_set
    labels,         \* LabelVocab.labels
    labels_dict,    \* LabelVocab.labels_dict
    built_from,     \* history: label_set as it was at the last build()
    rt_in,          \* the last list given to convert_labels_to_ids
    rt_out,         \* ... and convert_ids_to_labels of its result
    n_builds        \* history: number of build() calls so far, counted up to MaxBuilds

vocabVars == <<label_set, labels, labels_dict, built_from, rt_in, rt_out, n_builds>>

VARIABLES
    fpc,              \* "example", "feature", "assert_failed" or "predicted"
    kind,             \* "labeled" (NERExample) or "unlabeled" (UnsupervisedExample)
    ex_pieces,        \* per word of example.tokens, what the tokenizer returns for it
    ex_labels,        \* example.labels
    max_seq_length,   \* args.max_seq_length
    feature,          \* the InputFeatures built for the example
    max_scores,       \* result.logits.argmax(dim=1).tolist()
    predicted_labels, \* write_predictions: predicted_labels of the example
    true_labels,      \* write_predictions: true_labels of the example
    warned            \* write_predictions logged the length mismatch

featVars == <<fpc, kind, ex_pieces, ex_labels, max_seq_length, feature, max_scores,
              predicted_labels, true_labels, warned>>

VARIABLES
    pc,                    \* where main() is
    args,                  \* the parsed command line
    output_dir_not_empty,  \* output_dir exists and lists more than one entry
    n_batches,             \* len(train_dataloader)
    eval_examples_defined, \* eval_examples, eval_features, output_filepath are bound
    epoch,                 \* the epoch of "for epoch in trange(...)"
    step,                  \* the step of "for step, batch in enumerate(...)"
    global_step,           \* global_step
    current_f1,            \* current_f1
    best_f1,               \* best_f1
    checkpoint_on_disk,    \* output_config_file and output_model_file both exist
    error,                 \* the exception that ended main(), if any
    work,                  \* history: the kinds of work done so far
    train_steps,           \* history: training steps (batches) run so far
    pending,               \* gradients accumulated since the last zero_grad(), in batches
    pending_old,           \* ... those of them that come from an earlier epoch
    last_window,           \* batches whose gradients the last optimizer.step() applied
    last_window_old,       \* ... those of them that came from an earlier epoch
    n_evals,               \* history: evaluation points of the training loop so far
    last_eval,             \* history: the latest evaluation point
    ckpt_writes,           \* history: checkpoints written by the training loop
    ckpt_f1,               \* history: F1 of the evaluation that wrote the latest one
    unsup_eval             \* history: the latest call of evaluate_model_unsupervised

VARIABLES
    n_examples,                   \* len(train_examples)
    train_batch_size,             \* --train_batch_size, as given
    num_train_optimization_steps  \* num_train_optimization_steps

planVars == <<n_examples, train_batch_size, num_train_optimization_steps>>

mainVars == <<planVars, pc, args, output_dir_not_empty, n_batches, eval_examples_defined, epoch, step,
              global_step, current_f1, best_f1, checkpoint_on_disk, error, work,
              train_steps, pending, pending_old, last_window, last_window_old, n_evals,
              last_eval, ckpt_writes, ckpt_f1, unsup_eval>>

VARIABLES
    cpc,           \* "start", "loaded" or "assert_failed"; "idle" when nothing is loaded
    cache_file,    \* the cache file: missing, corrupt or the pickle of a feature list
    cache_found,   \* history: the cache file as the read of it found it
    features,      \* train_features / unsupervised_features
    worker_rank    \* args.local_rank of the process that loads

cacheVars == <<cpc, cache_file, cache_found, features, worker_rank>>

VARIABLES
    tsa_args,          \* args.tsa, args.num_train_epochs and len(train_dataloader)
    tsa,               \* the scheduler object of lines 738-762, NoTSA for None
    tsa_current_step,  \* the scheduler's step counter
    tsa_threshold,     \* the threshold the scheduler computed last
    tsa_level          \* the value a constant schedule holds, in K-ths

tsaVars == <<tsa_args, tsa, tsa_current_step, tsa_threshold, tsa_level>>

\* what belongs to the scheduler and no step changes
tsaFixed == <<tsa_args, tsa, tsa_threshold, tsa_level>>

VARIABLES
    spc,               \* where the training loop is
    run,               \* its configuration
    s_epoch,           \* epoch
    s_step,            \* step
    sup_passes,        \* history: supervised forward passes so far
    retained,          \* the positions of the supervised batch left by tsa.apply
    loss,              \* loss
    logged_supervised, \* the value given to add_scalar('supervised_loss', ...)
    loss_mask,         \* loss_mask, as bound at lines 782 and 787
    mse_pairs,         \* the (example, position) pairs that enter MSELoss
    backward_calls,    \* history: calls of loss.backward()
    accumulated,       \* batches whose gradients are accumulated and not yet applied
    applied            \* history: batches whose gradients optimizer.step() applied

stepVars == <<spc, run, s_epoch, s_step, sup_passes, retained, loss, logged_supervised,
              loss_mask, mse_pairs, backward_calls, accumulated, applied>>

VARIABLES
    dpc,               \* where the run is between reading the corpora and decoding
    train_label_set,   \* label_set of the vocabulary of the training examples
    train_labels,      \* labels of the vocabulary of the training examples
    num_labels,        \* num_labels of the model that is trained
    decoded            \* an id the model put out, its label at decoding and in training

decodeVars == <<dpc, train_label_set, train_labels, num_labels, decoded>>

auxVars == <<cacheVars, tsaVars, stepVars, decodeVars>>

\* what the feature cache actions leave alone
notCacheAux == <<tsaVars, stepVars, decodeVars>>

otherThanVocab == <<featVars, mainVars, auxVars>>

\* LabelVocab.__init__, short of label_set
VocabUnbuilt ==
    /\ labels = <<>>
    /\ labels_dict = <<>>
    /\ built_from = {}
    /\ rt_in = <<>>
    /\ rt_out = <<>>
    /\ n_builds = 0

\* LabelVocab.__init__
VocabInit ==
    /\ label_set = {}
    /\ VocabUnbuilt

\* LabelVocab.update(example): label_set.update(example.labels)
update(exLabels) ==
    /\ label_set' = label_set \cup exLabels
    /\ UNCHANGED <<labels, labels_dict, built_from, rt_in, rt_out, n_builds>>
    /\ UNCHANGED otherThanVocab

Update == \E s \in (SUBSET Labels) \ {{}} : update(s)

\* LabelVocab.build()
Build ==
    /\ labels' = build_labels(label_set)
    /\ labels_dict' = build_labels_dict(labels')
    /\ built_from' = label_set
    /\ n_builds' = Min(n_builds + 1, MaxBuilds)
    /\ UNCHANGED <<label_set, rt_in, rt_out>>
    /\ UNCHANGED otherThanVocab

\* convert_ids_to_labels(convert_labels_to_ids(L)) for a list L of known labels
ConvertRoundTrip ==
    /\ labels # <<>>
    /\ \E L \in SeqsUpTo(DOMAIN labels_dict, 1, MaxLabelList) :
          /\ rt_in' = L
          /\ rt_out' = convert_ids_to_labels(labels, convert_labels_to_ids(labels_dict, L))
    /\ UNCHANGED <<label_set, labels, labels_dict, built_from, n_builds>>
    /\ UNCHANGED otherThanVocab

\* ------------------------------------------- feature conversion (SpecFeat)
\* What tokenizer.tokenize returns for one word: a first piece, then pieces
\* that are either "##"-prefixed continuations of a wordpiece split or further
\* tokens of the word that the basic tokenizer split off at punctuation
\* ("U.S." gives "u", ".", "s", "."), which carry no "##" prefix.
FirstPieces == {"w"}

LaterPieces == {"##w", "."}

Tokenizations ==
    {t \in SeqsUpTo(FirstPieces \cup LaterPieces, 1, MaxPieces) :
        /\ t[1] \in FirstPieces
        /\ \A i \in 2..Len(t) : t[i] \in LaterPieces}

\* token.startswith("##")
startswith_hashes(token) == token \in {"##w"}

\* tokenizer.convert_tokens_to_ids: the vocabulary index of each token
TokenId == [t \in {"[CLS]", "[SEP]", "w", "##w", "."} |->
              CASE t = "[CLS]" -> 101 [] t = "[SEP]" -> 102 [] t = "w" -> 1059
                [] t = "##w" -> 2860 [] t = "." -> 1012]

\* the labels the examples of the modelled corpus carry, and the labels that
\* only other examples of the same file add to the vocabulary
ExampleLabels == {"O", "B-PER", "S-PER"}

OtherLabels == {"B-LOC"}

Zeros(n) == [i \in 1..n |-> 0]

\* "while len(x) < max_seq_length: x.append(0)"
ZeroPad(x, n) == x \o Zeros(Max(0, n - Len(x)))

\* tok_to_orig_index: the word index i, once per subword piece of word i
RECURSIVE tok_to_orig_index_from(_, _)
tok_to_orig_index_from(pieces, i) ==
    IF i > Len(pieces) THEN <<>>
    ELSE [k \in 1..Len(pieces[i]) |-> i - 1] \o tok_to_orig_index_from(pieces, i + 1)

\* all_labels: the word's label, once per subword piece
RECURSIVE all_labels_from(_, _, _)
all_labels_from(pieces, ls, i) ==
    IF i > Len(pieces) THEN <<>>
    ELSE [k \in 1..Len(pieces[i]) |-> ls[i]] \o all_labels_from(pieces, ls, i + 1)

\* mutant: no cut-off at max_seq_length - 2
truncate_nothing(x, max_len) == x

\* all_tokens[:max_tokens] with max_tokens = max_seq_length - 2
truncate(x, max_len) == PySliceTo(x, max_len - 2)

\* loss_mask = deepcopy(input_mask), then 0 where the token starts with "##"
loss_mask_of(tokens) ==
    [i \in DOMAIN tokens |-> IF startswith_hashes(tokens[i]) THEN 0 ELSE 1]

\* the body of the loop of convert_examples_to_features for one example,
\* up to the assertions; label_ids is absent (<<>>) for an unlabeled example
FeatureOf(pieces, ls, dict, max_len, labeled) ==
    LET tok_to_orig_index == tok_to_orig_index_from(pieces, 1)
        all_tokens == truncate(Flatten(pieces), max_len)
        all_labels == truncate(all_labels_from(pieces, ls, 1), max_len)
        tokens == <<"[CLS]">> \o all_tokens \o <<"[SEP]">>
        tok_labels == <<"O">> \o all_labels \o <<"O">>
        input_ids == [i \in DOMAIN tokens |-> TokenId[tokens[i]]]
        input_mask == [i \in DOMAIN tokens |-> 1]
    IN  [tokens |-> tokens,
         token_to_orig_map |-> tok_to_orig_index,
         input_ids |-> ZeroPad(input_ids, max_len),
         input_mask |-> ZeroPad(input_mask, max_len),
         loss_mask |-> ZeroPad(loss_mask_of(tokens), max_len),
         segment_ids |-> ZeroPad([i \in DOMAIN tokens |-> 0], max_len),
         label_ids |-> IF labeled
                       THEN ZeroPad(convert_labels_to_ids(dict, tok_labels), max_len)
                       ELSE <<>>]

\* the assertions of lines 300-304 (396-399 for an unlabeled example)
LengthAssertions(f, max_len, labeled) ==
    /\ Len(f.input_ids) = max_len
    /\ Len(f.input_mask) = max_len
    /\ Len(f.loss_mask) = max_len
    /\ Len(f.segment_ids) = max_len
    /\ labeled => Len(f.label_ids) = max_len

\* mutant: every subword piece is taken for a head wordpiece
RECURSIVE head_positions_all(_, _, _, _)
head_positions_all(tokens, map, p, last_orig_index) ==
    IF p >= Len(tokens) THEN <<>>
    ELSE IF tokens[p + 1] \in {"[CLS]", "[SEP]"}
         THEN head_positions_all(tokens, map, p + 1, last_orig_index)
         ELSE <<p>> \o head_positions_all(tokens, map, p + 1, map[p])

\* write_predictions, lines 450-460: the positions p, from p on, whose
\* prediction is retained
RECURSIVE head_positions(_, _, _, _)
head_positions(tokens, map, p, last_orig_index) ==
    IF p >= Len(tokens) THEN <<>>
    ELSE IF tokens[p + 1] \in {"[CLS]", "[SEP]"}
         THEN head_positions(tokens, map, p + 1, last_orig_index)
         ELSE IF map[p] = last_orig_index
              THEN head_positions(tokens, map, p + 1, last_orig_index)
              ELSE <<p>> \o head_positions(tokens, map, p + 1, map[p])

NoFeature == [tokens |-> <<>>, token_to_orig_map |-> <<>>, input_ids |-> <<>>,
              input_mask |-> <<>>, loss_mask |-> <<>>, segment_ids |-> <<>>,
              label_ids |-> <<>>]

NothingConverted ==
    /\ feature = NoFeature
    /\ max_scores = <<>>
    /\ predicted_labels = <<>>
    /\ true_labels = <<>>
    /\ warned = FALSE

\* no example is being converted (the specifications that convert none)
FeatIdle ==
    /\ fpc = "idle"
    /\ kind = "none"
    /\ ex_pieces = <<>>
    /\ ex_labels = <<>>
    /\ max_seq_length = 0
    /\ NothingConverted

\* An example as read_ner_examples (at least one word, one label per word,
\* its labels in the file's vocabulary) or read_unsupervised_examples (any
\* number of words, no labels) leaves it, and the configured max_seq_length.
FeatInit ==
    /\ fpc = "example"
    /\ kind \in {"labeled", "unlabeled"}
    /\ \E n \in 0..MaxWords :
          /\ ex_pieces \in [1..n -> Tokenizations]
          /\ IF kind = "labeled"
             THEN /\ n >= 1
                  /\ ex_labels \in [1..n -> ExampleLabels]
                  /\ \E other \in SUBSET OtherLabels :
                        label_set = Range(ex_labels) \cup other
             ELSE /\ ex_labels = <<>>
                  /\ label_set = {}
    /\ max_seq_length \in 0..MaxSeqLength
    /\ NothingConverted
    /\ VocabUnbuilt

\* convert_examples_to_features: label_vocab.build(), then the loop body
ConvertExample ==
    /\ fpc = "example"
    /\ kind = "labeled"
    /\ labels' = build_labels(label_set)
    /\ labels_dict' = build_labels_dict(labels')
    /\ built_from' = label_set
    /\ n_builds' = Min(n_builds + 1, MaxBuilds)
    /\ feature' = FeatureOf(ex_pieces, ex_labels, labels_dict', max_seq_length, TRUE)
    /\ fpc' = IF LengthAssertions(feature', max_seq_length, TRUE)
              THEN "feature" ELSE "assert_failed"
    /\ UNCHANGED <<kind, ex_pieces, ex_labels, max_seq_length, max_scores,
                   predicted_labels, true_labels, warned, label_set, rt_in, rt_out>>
    /\ UNCHANGED mainVars
    /\ UNCHANGED auxVars

\* convert_unsupervised_examples_to_features: the loop body
ConvertUnsupervisedExample ==
    /\ fpc = "example"
    /\ kind = "unlabeled"
    /\ feature' = FeatureOf(ex_pieces, ex_labels, labels_dict, max_seq_length, FALSE)
    /\ fpc' = IF LengthAssertions(feature', max_seq_length, FALSE)
              THEN "feature" ELSE "assert_failed"
    /\ UNCHANGED <<kind, ex_pieces, ex_labels, max_seq_length, max_scores,
                   predicted_labels, true_labels, warned, vocabVars>>
    /\ UNCHANGED mainVars
    /\ UNCHANGED auxVars

\* the per-position argmax of the logits handed to write_predictions: the gold
\* label ids, or one and the same id at every position
ArgmaxChoices ==
    {feature.label_ids} \cup {[i \in 1..max_seq_length |-> k] : k \in 0..(Len(labels) - 1)}

\* mutant: the failed assertion of line 462 is not caught
after_assertions_uncaught(predicted, true, example_labels) ==
    IF Len(predicted) # Len(example_labels) \/ Len(true) # Len(predicted)
    THEN "aborted" ELSE "predicted"

\* lines 461-466: the assertion on len(example.labels) is caught and logged,
\* the one on the two retained lists is not
after_assertions(predicted, true, example_labels) ==
    IF Len(true) # Len(predicted) THEN "aborted" ELSE "predicted"

\* write_predictions: the loop body for the example (lines 445-468)
WritePredictions ==
    /\ fpc = "feature"
    /\ kind = "labeled"
    /\ \E ms \in ArgmaxChoices :
          LET raw_labels == convert_ids_to_labels(labels, ms)
              heads == head_positions(feature.tokens, feature.token_to_orig_map, 0, -1)
          IN  /\ max_scores' = ms
              /\ predicted_labels' = [k \in DOMAIN heads |-> raw_labels[heads[k] + 1]]
              /\ true_labels' =
                    [k \in DOMAIN heads |-> ex_labels[feature.token_to_orig_map[heads[k]] + 1]]
              /\ warned' = (Len(heads) # Len(ex_labels))
    /\ fpc' = after_assertions(predicted_labels', true_labels', ex_labels)
    /\ UNCHANGED <<kind, ex_pieces, ex_labels, max_seq_length, feature, vocabVars>>
    /\ UNCHANGED mainVars
    /\ UNCHANGED auxVars


\* ------------------------------------------- feature caches (SpecCache)
\* no feature list is being loaded (the specifications that load none)
MissingFile == [state |-> "missing", content |-> <<>>]

\* a file that open() opens and pickle.load() fails on
CorruptFile == [state |-> "corrupt", content |-> <<>>]

\* pickle.dump(list, writer)
PickleOf(list) == [state |-> "pickle", content |-> list]

NotRead == [state |-> "not_read", content |-> <<>>]

CacheIdle ==
    /\ cpc = "idle"
    /\ cache_file = MissingFile
    /\ cache_found = NotRead
    /\ features = <<>>
    /\ worker_rank = -1

\* tsa = None
NoTSA == [shape |-> "none", num_classes |-> 0, num_steps |-> 0]

\* args.tsa cut at "_": what it starts with, split("_")[-2] and split("_")[-1]
NoDescriptor == [name |-> "none", second_last |-> 0, last |-> 0]

NoTsaArgs == [descriptor |-> NoDescriptor, num_train_epochs |-> 0, len_train_dataloader |-> 0]

\* a threshold num / den; den = 0 where none is defined
NoThreshold == [num |-> 0, den |-> 0]

TsaIdle ==
    /\ tsa_args = NoTsaArgs
    /\ tsa = NoTSA
    /\ tsa_current_step = 0
    /\ tsa_threshold = NoThreshold
    /\ tsa_level = 0

NoLoss == [type |-> "none", supervised |-> 0, with_consistency |-> FALSE]

NoRun == [gradient_accumulation_steps |-> 0, num_train_epochs |-> 0, n_batches |-> 0,
          unsupervised_batch_size |-> 0, mask_dtype |-> "none"]

\* no training loop is run (the specifications that run none)
StepIdle ==
    /\ spc = "idle"
    /\ run = NoRun
    /\ s_epoch = 0
    /\ s_step = 0
    /\ sup_passes = 0
    /\ retained = {}
    /\ loss = NoLoss
    /\ logged_supervised = 0
    /\ loss_mask = <<>>
    /\ mse_pairs = <<>>
    /\ backward_calls = 0
    /\ accumulated = 0
    /\ applied = 0

NothingDecoded == [id |-> -1, label |-> "none", trained |-> "none"]

\* no vocabulary of training examples is kept apart (the specifications of
\* one vocabulary)
DecodeIdle ==
    /\ dpc = "idle"
    /\ train_label_set = {}
    /\ train_labels = <<>>
    /\ num_labels = 0
    /\ decoded = NothingDecoded

AuxIdle == CacheIdle /\ TsaIdle /\ StepIdle /\ DecodeIdle

\* the process is the only one, or rank 0 of a distributed run on one node
is_rank_zero_or_single(local_rank) == local_rank = -1 \/ local_rank = 0

\* the pickled feature list of a cache file written by an earlier run: the
\* list the conversion gives now, or the list of an older version of the corpus
\* (here: of the corpus without the example)
CachedLists(now) == {now, <<>>}

\* The corpus (one example) before its features are loaded, with the cache
\* file as an earlier run, or none, left it.
CacheInit ==
    /\ cpc = "start"
    /\ cache_file \in {MissingFile, CorruptFile}
                     \cup {PickleOf(list) :
                             list \in CachedLists(<<FeatureOf(ex_pieces, ex_labels,
                                                   build_labels_dict(build_labels(label_set)),
                                                   max_seq_length, kind = "labeled")>>)}
    /\ cache_found = NotRead
    /\ features = <<>>
    /\ worker_rank \in {-1, 0, 1}

\* mutant: only a missing file is handled ("except FileNotFoundError:")
cache_load_fails_if_missing(file) == file.state = "missing"

\* lines 698-701 and 895-898: open() or pickle.load() raises, and the bare
\* "except:" catches whatever it is
cache_load_fails(file) == file.state \in {"missing", "corrupt"}

\* lines 707-710 and 904-907: the cache file after the features were converted
cache_after_conversion(converted) ==
    IF is_rank_zero_or_single(worker_rank) THEN PickleOf(converted) ELSE cache_file

\* main, lines 695-710: train_features from the cache file or, when reading
\* it fails, from convert_examples_to_features, then written to the cache file
TrainFeaturesThroughCache ==
    /\ cpc = "start"
    /\ kind = "labeled"
    /\ cache_found' = cache_file
    /\ IF cache_load_fails(cache_file)
       THEN /\ labels' = build_labels(label_set)
            /\ labels_dict' = build_labels_dict(labels')
            /\ built_from' = label_set
            /\ n_builds' = Min(n_builds + 1, MaxBuilds)
            /\ feature' = FeatureOf(ex_pieces, ex_labels, labels_dict', max_seq_length, TRUE)
            /\ IF LengthAssertions(feature', max_seq_length, TRUE)
               THEN /\ cpc' = "loaded"
                    /\ features' = <<feature'>>
                    /\ cache_file' = cache_after_conversion(features')
               ELSE /\ cpc' = "assert_failed"
                    /\ UNCHANGED <<features, cache_file>>
       ELSE /\ cpc' = "loaded"
            /\ features' = cache_file.content
            /\ UNCHANGED <<cache_file, feature, labels, labels_dict, built_from, n_builds>>
    /\ UNCHANGED <<worker_rank, label_set, rt_in, rt_out>>
    /\ UNCHANGED <<fpc, kind, ex_pieces, ex_labels, max_seq_length, max_scores,
                   predicted_labels, true_labels, warned>>
    /\ UNCHANGED mainVars
    /\ UNCHANGED notCacheAux

\* _load_unsupervised_data, lines 892-908: the same for unsupervised_features
\* and convert_unsupervised_examples_to_features
load_unsupervised_data ==
    /\ cpc = "start"
    /\ kind = "unlabeled"
    /\ cache_found' = cache_file
    /\ IF cache_load_fails(cache_file)
       THEN /\ feature' = FeatureOf(ex_pieces, ex_labels, labels_dict, max_seq_length, FALSE)
            /\ IF LengthAssertions(feature', max_seq_length, FALSE)
               THEN /\ cpc' = "loaded"
                    /\ features' = <<feature'>>
                    /\ cache_file' = cache_after_conversion(features')
               ELSE /\ cpc' = "assert_failed"
                    /\ UNCHANGED <<features, cache_file>>
       ELSE /\ cpc' = "loaded"
            /\ features' = cache_file.content
            /\ UNCHANGED <<cache_file, feature>>
    /\ UNCHANGED <<worker_rank, vocabVars>>
    /\ UNCHANGED <<fpc, kind, ex_pieces, ex_labels, max_seq_length, max_scores,
                   predicted_labels, true_labels, warned>>
    /\ UNCHANGED mainVars
    /\ UNCHANGED notCacheAux

\* ------------------------------------------------------------ main (Spec)
\* "epoch % 5 == 0" of line 839
EvalPeriod == 5

NoError == [type |-> "none", cause |-> "none"]

RECURSIVE Factorial(_)
Factorial(n) == IF n <= 1 THEN 1 ELSE n * Factorial(n - 1)

\* F1 scores are kept as whole multiples of 1/F1Unit of a point, so that the
\* quotient of line 852 of two scores is exact
F1Unit == Factorial(2 * MaxF1)

\* the F1 that conlleval's evaluate returns, in those units
F1Values == {k * F1Unit : k \in 0..MaxF1}

\* history record of an evaluation point of the training loop: its F1, the F1
\* of the evaluation point before it (if any), the best F1 of all earlier
\* ones (0.0 when none), whether it wrote a checkpoint, whether it stopped
\* the training
NoEval == [f1 |-> -1, has_prev |-> FALSE, prev |-> -1, best_before |-> 0,
           saved |-> FALSE, stopped |-> FALSE]

\* history record of a call of evaluate_model_unsupervised: whether every
\* clean label was "O", and the (precision, recall, F1) returned
NoUnsupEval == [called |-> FALSE, all_O |-> FALSE, returned |-> <<-1, -1, -1>>]

Args ==
    [do_train : BOOLEAN, do_predict : BOOLEAN,
     train_file : BOOLEAN, predict_file : BOOLEAN, unsupervised_file : BOOLEAN,
     unsupervised_predict_file : BOOLEAN, local_rank : {-1, 0, 1},
     evaluate_each_epoch : BOOLEAN, early_stopping : BOOLEAN,
     gradient_accumulation_steps : 0..MaxGAS,
     num_train_epochs : 0..MaxEpochs]

\* main() has not started (the specifications that do not run it)
MainIdle ==
    /\ n_examples = 0
    /\ train_batch_size = 0
    /\ num_train_optimization_steps = 0
    /\ pc = "idle"
    /\ args = <<>>
    /\ output_dir_not_empty = FALSE
    /\ n_batches = 0
    /\ eval_examples_defined = FALSE
    /\ epoch = 0
    /\ step = 0
    /\ global_step = 0
    /\ current_f1 = 0
    /\ best_f1 = 0
    /\ checkpoint_on_disk = FALSE
    /\ error = NoError
    /\ work = {}
    /\ train_steps = 0
    /\ pending = 0
    /\ pending_old = 0
    /\ last_window = 0
    /\ last_window_old = 0
    /\ n_evals = 0
    /\ last_eval = NoEval
    /\ ckpt_writes = 0
    /\ ckpt_f1 = -1
    /\ unsup_eval = NoUnsupEval

\* main() after parse_args(), as a single process (local_rank = -1) or as the
\* worker of that rank in a distributed run on one node (get_rank() is then
\* local_rank).  A file
\* argument is TRUE when given and FALSE when left at None.  A checkpoint
\* already in output_dir is two files, so output_dir then lists more than
\* one entry.
Init ==
    /\ pc = "start"
    /\ args \in Args
    /\ output_dir_not_empty \in BOOLEAN
    /\ checkpoint_on_disk \in BOOLEAN
    /\ checkpoint_on_disk => output_dir_not_empty
    /\ n_batches \in 1..MaxBatches
    /\ n_examples = n_batches
    /\ train_batch_size = args.gradient_accumulation_steps
    /\ num_train_optimization_steps = 0
    /\ eval_examples_defined = FALSE
    /\ epoch = 0
    /\ step = 0
    /\ global_step = 0
    /\ current_f1 = 0
    /\ best_f1 = 0
    /\ error = NoError
    /\ work = {}
    /\ train_steps = 0
    /\ pending = 0
    /\ pending_old = 0
    /\ last_window = 0
    /\ last_window_old = 0
    /\ n_evals = 0
    /\ last_eval = NoEval
    /\ ckpt_writes = 0
    /\ ckpt_f1 = -1
    /\ unsup_eval = NoUnsupEval
    /\ VocabInit
    /\ FeatIdle
    /\ AuxIdle

\* raise: main() ends with the exception
Raise(type, cause) ==
    /\ pc' = "error"
    /\ error' = [type |-> type, cause |-> cause]

loopVars == <<epoch, step, global_step, current_f1, best_f1, train_steps, pending,
              pending_old, last_window, last_window_old, n_evals, last_eval,
              ckpt_writes, ckpt_f1, unsup_eval>>

inputVars == <<args, output_dir_not_empty, n_batches, n_examples, train_batch_size,
               vocabVars, featVars, auxVars>>

fixedVars == <<inputVars, num_train_optimization_steps>>

\* lines 572-599: the checks on the arguments
ValidateArgs ==
    /\ pc = "start"
    /\ IF args.gradient_accumulation_steps < 1
       THEN Raise("ValueError", "gradient_accumulation_steps")
       ELSE IF ~args.do_train /\ ~args.do_predict
       THEN Raise("ValueError", "no_mode")
       ELSE IF args.do_train /\ ~args.train_file
       THEN Raise("ValueError", "train_file")
       ELSE IF args.do_predict /\ ~args.predict_file
       THEN Raise("ValueError", "predict_file")
       ELSE pc' = "output_dir" /\ UNCHANGED error
    /\ UNCHANGED <<eval_examples_defined, checkpoint_on_disk, work, loopVars, fixedVars>>

\* mutant: training into a directory that holds files is let pass
output_dir_refused_never(not_empty, do_train) == FALSE

\* lines 601-602: a directory of more than one entry is refused for training
output_dir_refused(not_empty, do_train) == not_empty /\ do_train

\* lines 601-608: output_dir, the tensorboard writer, the tokenizer
PrepareOutputDir ==
    /\ pc = "output_dir"
    /\ IF output_dir_refused(output_dir_not_empty, args.do_train)
       THEN Raise("ValueError", "output_dir_not_empty") /\ UNCHANGED work
       ELSE /\ pc' = "read_train"
            /\ work' = work \cup {"output_dir"}
            /\ UNCHANGED error
    /\ UNCHANGED <<eval_examples_defined, checkpoint_on_disk, loopVars, fixedVars>>

\* line 576: args.train_batch_size = args.train_batch_size // args.gradient_accumulation_steps
batch_size_per_step == train_batch_size \div args.gradient_accumulation_steps

\* lines 615-618: int(len(train_examples) / train_batch_size /
\* gradient_accumulation_steps) * num_train_epochs, divided by the world size
\* (two workers) in a distributed run
planned_steps(len_train_examples, batch_size, gas, num_train_epochs, local_rank) ==
    LET single == (len_train_examples \div (batch_size * gas)) * num_train_epochs
    IN  IF local_rank # -1 THEN single \div 2 ELSE single

\* line 728: len(train_dataloader), the last batch may be short
len_dataloader(len_train_features, batch_size) ==
    (len_train_features + batch_size - 1) \div batch_size

\* lines 610-673: read the training corpus, plan the optimizer steps (a
\* division by the batch size per step), build the model and the optimizer
ReadTrainAndBuildModel ==
    /\ pc = "read_train"
    /\ IF args.do_train /\ batch_size_per_step = 0
       THEN /\ Raise("ZeroDivisionError", "train_batch_size")
            /\ work' = work \cup {"corpus"}
            /\ UNCHANGED num_train_optimization_steps
       ELSE /\ work' = work \cup (IF args.do_train THEN {"corpus"} ELSE {}) \cup {"model"}
            /\ num_train_optimization_steps' =
                  IF args.do_train
                  THEN planned_steps(n_examples, batch_size_per_step,
                                     args.gradient_accumulation_steps, args.num_train_epochs,
                                     args.local_rank)
                  ELSE num_train_optimization_steps
            /\ pc' = "read_eval"
            /\ UNCHANGED error
    /\ UNCHANGED <<eval_examples_defined, checkpoint_on_disk, loopVars, inputVars>>

\* "args.local_rank == -1 or torch.distributed.get_rank() == 0" of lines 675,
\* 707, 881 and 904
rank_zero_or_single == is_rank_zero_or_single(args.local_rank)

\* what loading features through a cache file adds to the work done: the
\* cache file is written after a failed read, by the single process or rank 0
cache_work(cache_readable) ==
    IF ~cache_readable /\ rank_zero_or_single THEN {"cache"} ELSE {}

\* lines 675-691: read and convert the evaluation corpus and, if given, the
\* unlabeled evaluation corpus
ReadEvalExamples ==
    /\ pc = "read_eval"
    /\ IF args.do_predict /\ rank_zero_or_single
       THEN /\ eval_examples_defined' = TRUE
            /\ \E cache_readable \in BOOLEAN :
                  work' = work \cup {"corpus"}
                               \cup (IF args.unsupervised_predict_file
                                     THEN cache_work(cache_readable) ELSE {})
       ELSE UNCHANGED <<eval_examples_defined, work>>
    /\ pc' = IF args.do_train THEN "train_features" ELSE "after_train"
    /\ UNCHANGED <<checkpoint_on_disk, error, loopVars, fixedVars>>

\* lines 694-728: the training features, from the cache file or converted and
\* then written to it
LoadTrainFeatures ==
    /\ pc = "train_features"
    /\ \E cache_readable \in BOOLEAN :
          work' = work \cup cache_work(cache_readable)
    /\ pc' = "unsupervised"
    /\ UNCHANGED <<eval_examples_defined, checkpoint_on_disk, error, loopVars, fixedVars>>

\* lines 730-765: _load_unsupervised_data (open(None) raises TypeError in
\* read_unsupervised_examples), the data loader, the perturbation, the schedule
LoadUnsupervisedData ==
    /\ pc = "unsupervised"
    /\ IF ~args.unsupervised_file
       THEN Raise("TypeError", "unsupervised_file") /\ UNCHANGED work
       ELSE /\ \E cache_readable \in BOOLEAN :
                  work' = work \cup {"corpus"} \cup cache_work(cache_readable)
            /\ pc' = "epoch"
            /\ UNCHANGED error
    /\ UNCHANGED <<eval_examples_defined, checkpoint_on_disk, loopVars, fixedVars>>

\* line 822: (step + 1) % gradient_accumulation_steps == 0
takes_optimizer_step(st) == (st + 1) % args.gradient_accumulation_steps = 0

\* lines 769-837: one iteration of the inner loop: the forward passes, the
\* backward pass and, when due, optimizer.step() and optimizer.zero_grad()
TrainStep ==
    /\ pc = "epoch"
    /\ epoch < args.num_train_epochs
    /\ step < n_batches
    /\ train_steps' = train_steps + 1
    /\ work' = work \cup {"train_step"}
    /\ IF takes_optimizer_step(step)
       THEN /\ last_window' = pending + 1
            /\ last_window_old' = pending_old
            /\ pending' = 0
            /\ pending_old' = 0
            /\ global_step' = global_step + 1
       ELSE /\ pending' = pending + 1
            /\ UNCHANGED <<pending_old, last_window, last_window_old, global_step>>
    /\ step' = step + 1
    /\ UNCHANGED <<pc, eval_examples_defined, epoch, current_f1, best_f1, checkpoint_on_disk,
                   error, n_evals, last_eval, ckpt_writes, ckpt_f1, unsup_eval, fixedVars>>

\* line 839: evaluate_each_epoch and epoch % 5 == 0
evaluates_at(e) == args.evaluate_each_epoch /\ e % EvalPeriod = 0

\* mutant: a drop of F1 by up to one point is let pass
stops_early_tolerant(e, f1, cur) == args.early_stopping /\ e > 0 /\ f1 + F1Unit < cur

\* lines 855-858: the early-stopping test
stops_early(e, f1, cur) == args.early_stopping /\ e > 0 /\ f1 < cur

\* mutant: a checkpoint also when F1 only equals the best
improves_or_equals(f1, best) == f1 >= best

\* line 860: the checkpoint test
improves(f1, best) == f1 > best

\* the next iteration of the epoch loop; what is still accumulated now comes
\* from an earlier epoch
NextEpoch ==
    /\ epoch' = epoch + 1
    /\ step' = 0
    /\ pending_old' = pending

EvalRecord(f1, saved, stopped) ==
    [f1 |-> f1, has_prev |-> n_evals > 0, prev |-> last_eval.f1,
     best_before |-> Max(last_eval.best_before, last_eval.f1),
     saved |-> saved, stopped |-> stopped]

\* the labels of the clean predictions that evaluate_model_unsupervised collects
CleanLabels == {"O", "B-PER"}

\* evaluate_model_unsupervised, lines 1006-1010: (0, 0, 0) when every clean
\* label is "O", else what conlleval's evaluate returns
evaluate_model_unsupervised(all_original_labels, scored) ==
    IF Range(all_original_labels) = {"O"} THEN <<0, 0, 0>> ELSE scored

\* line 852: 2 * f1 * unsupervised_f1 / (f1 + unsupervised_f1), exact in
\* multiples of 1/F1Unit; Python raises ZeroDivisionError when both are 0
total_f1(f1, unsupervised_f1) == (2 * f1 * unsupervised_f1) \div (f1 + unsupervised_f1)

\* lines 845-848: the calls of evaluate_model_unsupervised that can be made
\* at this point (none without unsupervised_predict_file)
UnsupEvals ==
    IF args.unsupervised_predict_file
    THEN {[called |-> TRUE, all_O |-> Range(all_original_labels) = {"O"},
           returned |-> evaluate_model_unsupervised(all_original_labels,
                                                    <<scored, scored, scored>>)] :
            all_original_labels \in SeqsUpTo(CleanLabels, 0, MaxLabelList),
            scored \in F1Values}
    ELSE {unsup_eval}

\* lines 839-869: the end of an epoch that evaluates: F1 of the evaluation
\* (with the prediction file it writes), its combination with the
\* unsupervised F1, early stopping, the best checkpoint
EndEpochEvaluate ==
    /\ pc = "epoch"
    /\ epoch < args.num_train_epochs
    /\ step = n_batches
    /\ evaluates_at(epoch)
    /\ eval_examples_defined
    /\ \E supervised_f1 \in F1Values, unsup \in UnsupEvals :
          LET unsupervised == args.unsupervised_predict_file
              unsupervised_f1 == unsup.returned[3]
          IN  /\ unsup_eval' = unsup
              /\ IF unsupervised /\ supervised_f1 + unsupervised_f1 = 0
                 THEN /\ Raise("ZeroDivisionError", "total_f1")
                      /\ work' = work \cup {"predictions"}
                      /\ UNCHANGED <<epoch, step, pending_old, current_f1, best_f1,
                                     checkpoint_on_disk, ckpt_writes, ckpt_f1, n_evals,
                                     last_eval>>
                 ELSE LET f1 == IF unsupervised
                                THEN total_f1(supervised_f1, unsupervised_f1)
                                ELSE supervised_f1
                      IN  /\ n_evals' = n_evals + 1
                          /\ UNCHANGED error
                          /\ IF stops_early(epoch, f1, current_f1)
                             THEN /\ pc' = "after_train"
                                  /\ last_eval' = EvalRecord(f1, FALSE, TRUE)
                                  /\ work' = work \cup {"predictions"}
                                  /\ UNCHANGED <<epoch, step, pending_old, current_f1,
                                                 best_f1, checkpoint_on_disk, ckpt_writes,
                                                 ckpt_f1>>
                             ELSE /\ IF improves(f1, best_f1)
                                     THEN /\ checkpoint_on_disk' = TRUE
                                          /\ ckpt_writes' = ckpt_writes + 1
                                          /\ ckpt_f1' = f1
                                          /\ best_f1' = f1
                                          /\ work' = work \cup {"predictions", "checkpoint"}
                                     ELSE /\ work' = work \cup {"predictions"}
                                          /\ UNCHANGED <<checkpoint_on_disk, ckpt_writes,
                                                         ckpt_f1, best_f1>>
                                  /\ last_eval' = EvalRecord(f1, improves(f1, best_f1), FALSE)
                                  /\ current_f1' = f1
                                  /\ NextEpoch
                                  /\ UNCHANGED pc
    /\ UNCHANGED <<eval_examples_defined, global_step, train_steps, pending,
                   last_window, last_window_old, fixedVars>>

\* line 840 when eval_examples was never bound (do_predict is off, or the
\* worker is not rank 0): NameError
EndEpochEvaluateFails ==
    /\ pc = "epoch"
    /\ epoch < args.num_train_epochs
    /\ step = n_batches
    /\ evaluates_at(epoch)
    /\ ~eval_examples_defined
    /\ Raise("NameError", IF args.do_predict THEN "local_rank"
                          ELSE IF args.predict_file THEN "do_predict" ELSE "predict_file")
    /\ UNCHANGED <<eval_examples_defined, checkpoint_on_disk, work, loopVars, fixedVars>>

\* lines 839 and 871-877: the end of an epoch that does not evaluate; without
\* evaluate_each_epoch the checkpoint is written
EndEpochNoEvaluation ==
    /\ pc = "epoch"
    /\ epoch < args.num_train_epochs
    /\ step = n_batches
    /\ ~evaluates_at(epoch)
    /\ IF ~args.evaluate_each_epoch
       THEN /\ checkpoint_on_disk' = TRUE
            /\ ckpt_writes' = ckpt_writes + 1
            /\ ckpt_f1' = -1
            /\ work' = work \cup {"checkpoint"}
       ELSE UNCHANGED <<checkpoint_on_disk, ckpt_writes, ckpt_f1, work>>
    /\ NextEpoch
    /\ UNCHANGED <<pc, eval_examples_defined, global_step, current_f1, best_f1, error,
                   train_steps, pending, last_window, last_window_old, n_evals, last_eval,
                   unsup_eval, fixedVars>>

\* line 767: the epoch loop has run int(num_train_epochs) epochs
FinishTraining ==
    /\ pc = "epoch"
    /\ epoch >= args.num_train_epochs
    /\ pc' = "after_train"
    /\ UNCHANGED <<eval_examples_defined, checkpoint_on_disk, error, work, loopVars, fixedVars>>

\* lines 879-887: load the checkpoint from output_dir and predict
FinalPrediction ==
    /\ pc = "after_train"
    /\ IF ~(args.do_predict /\ rank_zero_or_single)
       THEN pc' = "done" /\ UNCHANGED <<error, work>>
       ELSE IF checkpoint_on_disk
       THEN /\ pc' = "done"
            /\ work' = work \cup {"predictions"}
            /\ UNCHANGED error
       ELSE Raise("FileNotFoundError", "checkpoint") /\ UNCHANGED work
    /\ UNCHANGED <<eval_examples_defined, checkpoint_on_disk, loopVars, fixedVars>>


\* ------------------------------------------- one device: the training step
\* The loop body of lines 769-837 and BertForUdaNer.forward on a single model
\* replica (n_gpu <= 1), with unsupervised batches of two or more examples.

\* mutant: the step budget counts one epoch too many
make_tsa_one_more_epoch(descriptor, num_train_epochs, len_train_dataloader) ==
    IF descriptor.name \in {"log", "linear", "exp", "constant"}
    THEN [shape |-> descriptor.name,
          num_classes |-> descriptor.last,
          num_steps |-> (num_train_epochs + 1) * len_train_dataloader]
    ELSE IF descriptor.name = "flat"
    THEN [shape |-> "linear",
          num_classes |-> descriptor.last,
          num_steps |-> descriptor.second_last * len_train_dataloader]
    ELSE NoTSA

\* lines 738-762: the scheduler the loop constructs from args.tsa
make_tsa(descriptor, num_train_epochs, len_train_dataloader) ==
    IF descriptor.name \in {"log", "linear", "exp", "constant"}
    THEN [shape |-> descriptor.name,
          num_classes |-> descriptor.last,
          num_steps |-> num_train_epochs * len_train_dataloader]
    ELSE IF descriptor.name = "flat"
    THEN [shape |-> "linear",
          num_classes |-> descriptor.last,
          num_steps |-> descriptor.second_last * len_train_dataloader]
    ELSE NoTSA

\* TSA.step (scripts/tsa.py): the counter advances by one
TSA_step(current_step) == current_step + 1

\* TSA.apply (scripts/tsa.py): of the loss positions of the batch, those whose
\* gold-label probability is below the threshold are kept
TSA_apply(loss_positions, confident) == loss_positions \ confident

\* mutant: the scheduler is advanced in forward and once more when it is applied
tsa_steps_in_forward_twice(labels_given, tsa_given) ==
    IF labels_given /\ tsa_given THEN 2 ELSE 0

\* forward, lines 71-75: the calls of tsa.step() that one call of forward makes
tsa_steps_in_forward(labels_given, tsa_given) ==
    IF labels_given /\ tsa_given THEN 1 ELSE 0

RECURSIVE stepped(_, _)
stepped(current_step, calls) ==
    IF calls = 0 THEN current_step ELSE stepped(TSA_step(current_step), calls - 1)

\* the scheduler's counter after one call of forward
counter_after_forward(current_step, labels_given, tsa_given) ==
    stepped(current_step, tsa_steps_in_forward(labels_given, tsa_given))

\* mutant: no "Z == 0" guard, CrossEntropyLoss over no entry is nan (-1 here)
supervised_forward_unguarded(len_logits, cross_entropy) ==
    [type |-> "tensor", value |-> IF len_logits = 0 THEN -1 ELSE cross_entropy]

\* forward, lines 77-89: what a call with labels returns
supervised_forward(len_logits, cross_entropy) ==
    IF len_logits = 0
    THEN [type |-> "int", value |-> 0]
    ELSE [type |-> "tensor", value |-> cross_entropy]

\* lines 774-777: an int has no item(); the except branch logs 0
logged_loss(returned) == IF returned.type = "tensor" THEN returned.value ELSE 0

\* the loss positions of the supervised batch
SupervisedPositions == {1, 2}

\* CrossEntropyLoss over at least one entry
CrossEntropyValues == {1}

\* the loss_mask rows of the unlabeled features
UnsupRows ==
    {FeatureOf(pieces, <<>>, <<>>, MaxUnsupSeqLength, FALSE).loss_mask :
        pieces \in SeqsUpTo(Tokenizations, 0, MaxWords)}

\* next(iter(unsupervised_dataloader)): any b rows, in any order
UnsupBatches(b) == [1..b -> UnsupRows]

\* the dtype of the loss_mask that perturbation.perturbe hands back
\* (scripts/perturbations.py): torch.long as it was given (line 914), or a mask
MaskDtypes == {"long", "bool"}

\* x[index] for an index tensor of dtype long and shape [B, L]: entry (b, p) of
\* the result is the whole example x[index[b][p]]; the (example, position)
\* pairs read, in order (examples and positions count from 0)
pairs_indexed_by(index) ==
    Flatten([b \in DOMAIN index |->
        Flatten([p \in DOMAIN index[b] |->
            [q \in DOMAIN index[b] |-> <<index[b][p], q - 1>>]])])

\* x[mask] for a mask tensor: the entries (b, p) where the mask is set
pairs_masked_by(mask) ==
    Flatten([b \in DOMAIN mask |->
        Flatten([p \in DOMAIN mask[b] |->
            IF mask[b][p] = 1 THEN << <<b - 1, p - 1>> >> ELSE <<>>])])

\* lines 798-801: the entries of perturbed_logits[loss_mask] and of
\* detached_unsupervised_logits[loss_mask]
selected_pairs(mask, dtype) ==
    IF dtype = "long" THEN pairs_indexed_by(mask) ELSE pairs_masked_by(mask)

StepDescriptors == {NoDescriptor, [name |-> "linear", second_last |-> 0, last |-> 9]}

\* lines 738-768: before the first step of the first epoch
StepInit ==
    /\ \E gas \in 1..MaxGAS, epochs \in 1..MaxStepEpochs, n \in 1..MaxStepBatches,
          b \in 2..MaxUnsupBatch, dtype \in MaskDtypes, descriptor \in StepDescriptors :
          /\ run = [gradient_accumulation_steps |-> gas, num_train_epochs |-> epochs,
                    n_batches |-> n, unsupervised_batch_size |-> b, mask_dtype |-> dtype]
          /\ tsa_args = [descriptor |-> descriptor, num_train_epochs |-> epochs,
                         len_train_dataloader |-> n]
          /\ tsa = make_tsa(descriptor, epochs, n)
    /\ tsa_current_step = 0
    /\ tsa_threshold = NoThreshold
    /\ tsa_level = 0
    /\ spc = "supervised"
    /\ s_epoch = 0
    /\ s_step = 0
    /\ sup_passes = 0
    /\ retained = {}
    /\ loss = NoLoss
    /\ logged_supervised = 0
    /\ loss_mask = <<>>
    /\ mse_pairs = <<>>
    /\ backward_calls = 0
    /\ accumulated = 0
    /\ applied = 0

notStep == <<vocabVars, featVars, mainVars, cacheVars, decodeVars>>

\* lines 772-777: the supervised forward pass and the logging of its loss
SupervisedForward ==
    /\ spc = "supervised"
    /\ \E confident \in SUBSET SupervisedPositions, cross_entropy \in CrossEntropyValues :
          LET kept == IF tsa # NoTSA
                      THEN TSA_apply(SupervisedPositions, confident)
                      ELSE SupervisedPositions
              returned == supervised_forward(Cardinality(kept), cross_entropy)
          IN  /\ retained' = kept
              /\ loss' = [type |-> returned.type, supervised |-> returned.value,
                          with_consistency |-> FALSE]
              /\ logged_supervised' = logged_loss(returned)
    /\ tsa_current_step' = counter_after_forward(tsa_current_step, TRUE, tsa # NoTSA)
    /\ sup_passes' = sup_passes + 1
    /\ spc' = "clean"
    /\ UNCHANGED <<tsaFixed, run, s_epoch, s_step, loss_mask, mse_pairs, backward_calls,
                   accumulated, applied>>
    /\ UNCHANGED notStep

\* lines 779-784: the forward pass over the clean unsupervised batch
CleanForward ==
    /\ spc = "clean"
    /\ loss_mask' \in UnsupBatches(run.unsupervised_batch_size)
    /\ tsa_current_step' = counter_after_forward(tsa_current_step, FALSE, FALSE)
    /\ spc' = "perturbed"
    /\ UNCHANGED <<tsaFixed, run, s_epoch, s_step, sup_passes, retained, loss, logged_supervised,
                   mse_pairs, backward_calls, accumulated, applied>>
    /\ UNCHANGED notStep

\* lines 786-788: the perturbed batch (its loss_mask is the one it was given)
\* and the forward pass over it
PerturbedForward ==
    /\ spc = "perturbed"
    /\ tsa_current_step' = counter_after_forward(tsa_current_step, FALSE, FALSE)
    /\ spc' = "consistency"
    /\ UNCHANGED <<tsaFixed, run, s_epoch, s_step, sup_passes, retained, loss, logged_supervised,
                   loss_mask, mse_pairs, backward_calls, accumulated, applied>>
    /\ UNCHANGED notStep

\* lines 796-811: the consistency loss is added to the supervised loss
ConsistencyLoss ==
    /\ spc = "consistency"
    /\ mse_pairs' = selected_pairs(loss_mask, run.mask_dtype)
    /\ loss' = [type |-> "tensor", supervised |-> loss.supervised,
                with_consistency |-> TRUE]
    /\ spc' = "backward"
    /\ UNCHANGED <<tsaVars, run, s_epoch, s_step, sup_passes, retained, logged_supervised,
                   loss_mask, backward_calls, accumulated, applied>>
    /\ UNCHANGED notStep

\* lines 813-821: loss.backward(); the batch is not read again
Backward ==
    /\ spc = "backward"
    /\ backward_calls' = backward_calls + 1
    /\ accumulated' = accumulated + 1
    /\ spc' = "optimizer"
    /\ loss_mask' = <<>>
    /\ mse_pairs' = <<>>
    /\ UNCHANGED <<tsaVars, run, s_epoch, s_step, sup_passes, retained, loss,
                   logged_supervised, applied>>
    /\ UNCHANGED notStep

\* lines 822-837 and the advance of the inner loop
OptimizerStep ==
    /\ spc = "optimizer"
    /\ IF (s_step + 1) % run.gradient_accumulation_steps = 0
       THEN /\ applied' = applied + accumulated
            /\ accumulated' = 0
       ELSE UNCHANGED <<applied, accumulated>>
    /\ s_step' = s_step + 1
    /\ spc' = IF s_step + 1 = run.n_batches THEN "end_epoch" ELSE "supervised"
    /\ UNCHANGED <<tsaVars, run, s_epoch, sup_passes, retained, loss, logged_supervised,
                   loss_mask, mse_pairs, backward_calls>>
    /\ UNCHANGED notStep

\* lines 839-877: the evaluations (forward passes without labels) where they
\* are due, the checkpoint, and the advance of the outer loop
EndOfEpoch ==
    /\ spc = "end_epoch"
    /\ \E evaluates \in BOOLEAN, unsupervised \in BOOLEAN :
          tsa_current_step' =
              LET after_evaluate_model ==
                      IF evaluates
                      THEN counter_after_forward(tsa_current_step, FALSE, FALSE)
                      ELSE tsa_current_step
              IN  IF evaluates /\ unsupervised
                  THEN counter_after_forward(
                           counter_after_forward(after_evaluate_model, FALSE, FALSE),
                           FALSE, FALSE)
                  ELSE after_evaluate_model
    /\ s_epoch' = s_epoch + 1
    /\ s_step' = 0
    /\ spc' = IF s_epoch + 1 = run.num_train_epochs THEN "finished" ELSE "supervised"
    /\ UNCHANGED <<tsaFixed, run, sup_passes, retained, loss, logged_supervised, loss_mask,
                   mse_pairs, backward_calls, accumulated, applied>>
    /\ UNCHANGED notStep

\* ------------------------------------------------------ the scheduler alone
\* The scheduler as the training loop constructs and advances it. Its
\* thresholds are those of scripts/tsa.py, kept exact as fractions.

TsaClasses == {2, 9}

\* the values of args.tsa: "log_K", "linear_K", "exp_K", "constant_K", "flat_E_K"
TsaDescriptors ==
    {[name |-> n, second_last |-> 0, last |-> k] :
        n \in {"log", "linear", "exp", "constant"}, k \in TsaClasses}
    \cup {[name |-> "flat", second_last |-> e, last |-> k] :
             e \in 1..MaxStepEpochs, k \in TsaClasses}

\* how far step t of T is on the curve, in T*T-ths: "log" grows fast then
\* flattens, "linear" grows proportionally, "exp" grows slowly then accelerates
alpha_num(shape, t, T) ==
    CASE shape = "linear" -> t * T
      [] shape = "exp" -> t * t
      [] shape = "log" -> 2 * t * T - t * t

\* TSA.threshold at step t: 1/K + alpha * (1 - 1/K) for the three curves, the
\* value it holds for "constant"; none is defined for a curve over no step
threshold(scheduler, level, t) ==
    LET K == scheduler.num_classes
        T == scheduler.num_steps
    IN  IF scheduler.shape = "constant" THEN [num |-> level, den |-> K]
        ELSE IF T = 0 THEN NoThreshold
        ELSE [num |-> T * T + alpha_num(scheduler.shape, Min(t, T), T) * (K - 1),
              den |-> K * T * T]

\* the values a constant schedule of K classes may hold: 1/K .. K/K
ConstantLevels(scheduler) ==
    IF scheduler.shape = "constant" THEN 1..scheduler.num_classes ELSE {0}

\* lines 738-762: the scheduler of a run, before the first supervised batch
TsaInit ==
    /\ \E descriptor \in TsaDescriptors, epochs \in 0..MaxStepEpochs,
          n \in 1..MaxStepBatches :
          /\ tsa_args = [descriptor |-> descriptor, num_train_epochs |-> epochs,
                         len_train_dataloader |-> n]
          /\ tsa = make_tsa(descriptor, epochs, n)
    /\ tsa_level \in ConstantLevels(tsa)
    /\ tsa_current_step = 0
    /\ tsa_threshold = threshold(tsa, tsa_level, 0)

\* forward, lines 73-74, for one supervised batch of the run: tsa.step(), then
\* tsa.apply() computes the threshold of the new step
StepAndApply ==
    /\ tsa_current_step < tsa_args.num_train_epochs * tsa_args.len_train_dataloader
    /\ tsa_current_step' = TSA_step(tsa_current_step)
    /\ tsa_threshold' = threshold(tsa, tsa_level, tsa_current_step')
    /\ UNCHANGED <<tsa_args, tsa, tsa_level>>
    /\ UNCHANGED <<vocabVars, featVars, mainVars, cacheVars, stepVars, decodeVars>>

\* ------------------------------------- two corpora: encoding and decoding
\* The vocabulary of the training examples and that of the evaluation
\* examples (label_set, labels, labels_dict), each made by its own call of
\* read_ner_examples.

\* read_ner_examples (lines 196-218) for the training file and for the
\* predict file: a LabelVocab each, updated with the labels of its file
DecodeInit ==
    /\ dpc = "read"
    /\ train_label_set \in (SUBSET Labels) \ {{}}
    /\ label_set \in (SUBSET Labels) \ {{}}
    /\ train_labels = <<>>
    /\ num_labels = 0
    /\ decoded = NothingDecoded
    /\ VocabUnbuilt

\* lines 624, 677 and 703: the model is sized from the training vocabulary,
\* convert_examples_to_features builds each vocabulary from its own examples
BuildVocabularies ==
    /\ dpc = "read"
    /\ num_labels' = LabelVocab_len(train_label_set)
    /\ train_labels' = build_labels(train_label_set)
    /\ labels' = build_labels(label_set)
    /\ labels_dict' = build_labels_dict(labels')
    /\ built_from' = label_set
    /\ n_builds' = Min(n_builds + 1, MaxBuilds)
    /\ dpc' = "trained"
    /\ UNCHANGED <<label_set, rt_in, rt_out, train_label_set, decoded>>
    /\ UNCHANGED <<featVars, mainVars, cacheVars, tsaVars, stepVars>>

\* write_predictions, lines 445-446, in an evaluation of the trained model:
\* an argmax over num_labels logits, decoded by example.label_vocab of an
\* evaluation example (labels[label_id]; IndexError beyond the list)
DecodePrediction ==
    /\ dpc = "trained"
    /\ \E label_id \in 0..(num_labels - 1) :
          decoded' = [id |-> label_id,
                      label |-> IF label_id < Len(labels)
                                THEN convert_ids_to_labels(labels, <<label_id>>)[1]
                                ELSE "IndexError",
                      trained |-> train_labels[label_id + 1]]
    /\ dpc' = "decoded"
    /\ UNCHANGED <<vocabVars, train_label_set, train_labels, num_labels>>
    /\ UNCHANGED <<featVars, mainVars, cacheVars, tsaVars, stepVars>>

\* ---------------------------------------------------------- specifications
vars == <<vocabVars, featVars, mainVars, auxVars>>

\* a fresh LabelVocab object under its public interface
InitVocab == VocabInit /\ FeatIdle /\ MainIdle /\ AuxIdle

VocabNext == Update \/ Build \/ ConvertRoundTrip

SpecVocab == InitVocab /\ [][VocabNext]_vars

\* one example of a corpus, before its conversion
InitFeat == FeatInit /\ MainIdle /\ AuxIdle

FeatNext == ConvertExample \/ ConvertUnsupervisedExample \/ WritePredictions

SpecFeat == InitFeat /\ [][FeatNext]_vars

\* a corpus of one example and its cache file, before the features are loaded
InitCache == FeatInit /\ CacheInit /\ MainIdle /\ TsaIdle /\ StepIdle /\ DecodeIdle

CacheNext == TrainFeaturesThroughCache \/ load_unsupervised_data

SpecCache == InitCache /\ [][CacheNext]_vars

\* a training run on one device, before its first step
InitStep == VocabInit /\ FeatIdle /\ MainIdle /\ CacheIdle /\ StepInit /\ DecodeIdle

StepNext ==
    \/ SupervisedForward
    \/ CleanForward
    \/ PerturbedForward
    \/ ConsistencyLoss
    \/ Backward
    \/ OptimizerStep
    \/ EndOfEpoch

SpecStep == InitStep /\ [][StepNext]_vars

\* a scheduler as a run configures it, before the first supervised batch
InitTSA == VocabInit /\ FeatIdle /\ MainIdle /\ CacheIdle /\ StepIdle /\ TsaInit
           /\ DecodeIdle

TSANext == StepAndApply

SpecTSA == InitTSA /\ [][TSANext]_vars

\* a single-process training run without evaluation, over every number of
\* examples and every batch size
PlanArgs ==
    {a \in Args : /\ a.do_train /\ a.train_file /\ a.unsupervised_file
                  /\ ~a.do_predict /\ ~a.predict_file /\ ~a.unsupervised_predict_file
                  /\ ~a.evaluate_each_epoch /\ ~a.early_stopping
                  /\ a.local_rank = -1
                  /\ a.gradient_accumulation_steps >= 1}

InitPlan ==
    /\ pc = "start"
    /\ args \in PlanArgs
    /\ output_dir_not_empty = FALSE
    /\ checkpoint_on_disk = FALSE
    /\ n_examples \in 1..MaxExamples
    /\ train_batch_size \in 1..MaxTrainBatch
    /\ n_batches = IF batch_size_per_step = 0 THEN 0
                   ELSE len_dataloader(n_examples, batch_size_per_step)
    /\ num_train_optimization_steps = 0
    /\ eval_examples_defined = FALSE
    /\ epoch = 0
    /\ step = 0
    /\ global_step = 0
    /\ current_f1 = 0
    /\ best_f1 = 0
    /\ error = NoError
    /\ work = {}
    /\ train_steps = 0
    /\ pending = 0
    /\ pending_old = 0
    /\ last_window = 0
    /\ last_window_old = 0
    /\ n_evals = 0
    /\ last_eval = NoEval
    /\ ckpt_writes = 0
    /\ ckpt_f1 = -1
    /\ unsup_eval = NoUnsupEval
    /\ VocabInit
    /\ FeatIdle
    /\ AuxIdle

PlanNext ==
    \/ ValidateArgs
    \/ PrepareOutputDir
    \/ ReadTrainAndBuildModel
    \/ ReadEvalExamples
    \/ LoadTrainFeatures
    \/ LoadUnsupervisedData
    \/ TrainStep
    \/ EndEpochNoEvaluation
    \/ FinishTraining
    \/ FinalPrediction

SpecPlan == InitPlan /\ [][PlanNext]_vars

\* a training file and a predict file, read
InitDecode == DecodeInit /\ FeatIdle /\ MainIdle /\ CacheIdle /\ TsaIdle /\ StepIdle

DecodeNext == BuildVocabularies \/ DecodePrediction

SpecDecode == InitDecode /\ [][DecodeNext]_vars

Next ==
    \/ ValidateArgs
    \/ PrepareOutputDir
    \/ ReadTrainAndBuildModel
    \/ ReadEvalExamples
    \/ LoadTrainFeatures
    \/ LoadUnsupervisedData
    \/ TrainStep
    \/ EndEpochEvaluate
    \/ EndEpochEvaluateFails
    \/ EndEpochNoEvaluation
    \/ FinishTraining
    \/ FinalPrediction

Spec == Init /\ [][Next]_vars

\* ------------------------------------------------------------------ claims
\* a feature was produced (its length assertions passed)
Featured == fpc \in {"feature", "predicted"}

\* C1: in every feature, labeled or unlabeled, loss_mask is 0 at the [CLS]
\* position, at the [SEP] position and at every padding position.
C1_LossMaskZeroAtMarkersAndPadding ==
    Featured =>
        /\ feature.loss_mask[1] = 0
        /\ feature.loss_mask[Len(feature.tokens)] = 0
        /\ \A i \in (Len(feature.tokens) + 1)..max_seq_length : feature.loss_mask[i] = 0

\* C2: at every content position p (between the markers) loss_mask[p] is 1
\* exactly when token_to_orig_map[p] differs from token_to_orig_map of every
\* earlier position, whatever the tokenizer returned.
C2_LossMaskIffHeadWordpiece ==
    Featured =>
        \A p \in 1..(Len(feature.tokens) - 2) :
            (feature.loss_mask[p + 1] = 1)
                <=> (\A q \in 1..(p - 1) :
                        feature.token_to_orig_map[q] # feature.token_to_orig_map[p])

\* the five parallel arrays of the labeled feature all have length max_seq_length
FiveArraysOfLength(f, n) ==
    /\ Len(f.input_ids) = n
    /\ Len(f.input_mask) = n
    /\ Len(f.loss_mask) = n
    /\ Len(f.segment_ids) = n
    /\ Len(f.label_ids) = n

Fits == Len(Flatten(ex_pieces)) <= max_seq_length - 2

\* C4: for a labeled example that fits, the reconstruction of
\* write_predictions from an argmax equal to the gold label_ids gives
\* example.labels back.
C4_GoldRoundTrip ==
    (fpc = "predicted" /\ max_scores = feature.label_ids /\ Fits) =>
        /\ predicted_labels = ex_labels
        /\ true_labels = ex_labels
        /\ ~warned

\* a two-word example with a multi-piece word, three distinct label ids and
\* padding was reconstructed from its gold label ids
C4_Witness ==
    /\ fpc = "predicted"
    /\ max_scores = feature.label_ids
    /\ Fits
    /\ ex_labels = <<"S-PER", "B-PER">>
    /\ ex_pieces = <<(<<"w", "##w">>), (<<"w", ".">>)>>
    /\ "B-LOC" \in label_set
    /\ max_seq_length > Len(feature.tokens)
    /\ predicted_labels = ex_labels

\* C7: over the whole training run an optimizer step follows every
\* gradient_accumulation_steps training steps and applies the gradients of
\* exactly that many batches, none of them from an earlier epoch; no gradient
\* is pending when an epoch starts or when the training loop is over.
C7_EveryWindowHoldsExactlyGAS ==
    /\ global_step > 0 =>
          /\ last_window = args.gradient_accumulation_steps
          /\ last_window_old = 0
    /\ pc \in {"epoch", "after_train", "done"} =>
          global_step = train_steps \div args.gradient_accumulation_steps
    /\ (pc = "epoch" /\ step = 0 /\ epoch < args.num_train_epochs) => pending = 0
    /\ pc \in {"after_train", "done"} => pending = 0

\* the latest evaluation point of the training loop gave an F1 strictly lower
\* than the evaluation point before it, with early stopping enabled
Regressed == args.early_stopping /\ last_eval.has_prev /\ last_eval.f1 < last_eval.prev

C8_RegressionEndsTraining ==
    Regressed =>
        /\ pc \in {"after_train", "done", "error"}
        /\ last_eval.stopped
        /\ ~last_eval.saved

C8_NothingAfterRegression ==
    [][Regressed => /\ train_steps' = train_steps
                    /\ n_evals' = n_evals
                    /\ ckpt_writes' = ckpt_writes]_vars

C8_OnlyAtEpochBoundary ==
    [][(pc = "epoch" /\ epoch < args.num_train_epochs /\ (pc' # "epoch" \/ epoch' # epoch))
          => step = n_batches]_vars

\* C8: with early stopping, an evaluation whose F1 is strictly lower than the
\* previous evaluation's ends the training (no later training step,
\* evaluation or checkpoint write of the loop), and the loop is only ever
\* left, or an epoch ended, when all batches of the epoch have been processed.
C8_EarlyStopping ==
    /\ []C8_RegressionEndsTraining
    /\ C8_NothingAfterRegression
    /\ C8_OnlyAtEpochBoundary

\* a run that stopped at the second evaluation point (epoch 5) with more
\* epochs configured, and went on to its end
C8_Witness ==
    /\ Regressed
    /\ pc = "done"
    /\ epoch = EvalPeriod
    /\ args.num_train_epochs > EvalPeriod + 1
    /\ train_steps = (EvalPeriod + 1) * n_batches

C9_SavedIffStrictlyBetter ==
    /\ (args.evaluate_each_epoch /\ n_evals > 0) =>
          (last_eval.saved <=> last_eval.f1 > last_eval.best_before)
    /\ (args.evaluate_each_epoch /\ ckpt_writes > 0) => best_f1 = ckpt_f1
    /\ (~args.evaluate_each_epoch /\ pc \in {"epoch", "after_train", "done"}) =>
          ckpt_writes = epoch

C9_BestNeverDecreases ==
    [][/\ best_f1' >= best_f1
       /\ (args.evaluate_each_epoch /\ ckpt_writes' # ckpt_writes) =>
             (n_evals' = n_evals + 1 /\ last_eval'.saved)]_vars

\* C9: with periodic evaluation a checkpoint is written at an evaluation
\* point exactly when its F1 is strictly greater than the best F1 of all
\* earlier evaluations (0.0 at first), and at no other point; best_f1 never
\* decreases and equals the F1 of the latest checkpoint written; without
\* periodic evaluation a checkpoint is written after every epoch.
C9_CheckpointOnStrictImprovement == []C9_SavedIffStrictlyBetter /\ C9_BestNeverDecreases

\* a third evaluation point that beats the previous one but not the best:
\* no checkpoint is written
C9_Witness ==
    /\ args.evaluate_each_epoch
    /\ n_evals = 3
    /\ last_eval.f1 > last_eval.prev
    /\ last_eval.f1 = last_eval.best_before
    /\ ~last_eval.saved
    /\ ckpt_writes = 1
    /\ best_f1 = MaxF1 * F1Unit

\* the errors that come from a required input left out or from
\* gradient_accumulation_steps < 1
ConfigurationErrors ==
    {"gradient_accumulation_steps", "train_file", "predict_file", "unsupervised_file"}

\* C10: every configuration error is raised before any work starts: before a
\* corpus is read, a model built, a training step run, a file or directory
\* written.
C10_ConfigurationErrorsBeforeAnyWork ==
    (pc = "error" /\ error.cause \in ConfigurationErrors) =>
        (work = {} /\ train_steps = 0)

\* C6: after build(), labels is "O" followed by the other accumulated labels
\* in sorted order and labels_dict maps each label to its position; a second
\* build() on an unchanged label set changes neither; and decoding the ids of
\* a list of known labels gives the list back.
Rank(l) == CHOOSE i \in DOMAIN LabelOrder : LabelOrder[i] = l

C6_OrderAndRoundTrip ==
    labels # <<>> =>
        /\ labels[1] = "O"
        /\ Range(labels) = built_from \cup {"O"}
        /\ \A i, j \in 2..Len(labels) : i < j => Rank(labels[i]) < Rank(labels[j])
        /\ DOMAIN labels_dict = Range(labels)
        /\ \A i \in DOMAIN labels : labels_dict[labels[i]] = i - 1
        /\ rt_out = rt_in

C6_RebuildIdempotent ==
    [][(labels # <<>> /\ built_from = label_set /\ label_set' = label_set)
          => (labels' = labels /\ labels_dict' = labels_dict)]_vars

C6_BuildOrderIdempotentRoundTrip == []C6_OrderAndRoundTrip /\ C6_RebuildIdempotent

C6_Witness ==
    /\ labels = <<"O", "B-PER", "S-PER">>
    /\ built_from = label_set
    /\ n_builds >= 2
    /\ rt_in = <<"S-PER", "O">>
    /\ rt_out = rt_in

\* C17: in every feature, labeled or unlabeled, truncated or not,
\* token_to_orig_map is defined exactly on the content positions 1..n, n the
\* number of subword pieces kept between the markers.
C17_OrigMapOnContentPositionsOnly ==
    Featured => DOMAIN feature.token_to_orig_map = 1..(Len(feature.tokens) - 2)

\* the original words that have a subword piece among the kept ones
SurvivingWords ==
    {feature.token_to_orig_map[p] : p \in 1..(Len(feature.tokens) - 2)}

\* C18: write_predictions never aborts on an example: a retained count that
\* differs from len(example.labels) is only logged; the predicted and the
\* true labels retained are equally many, one per original word with a
\* surviving head wordpiece, in word order.
C18_MismatchLoggedNotFatal ==
    /\ fpc # "aborted"
    /\ fpc = "predicted" =>
          /\ Len(predicted_labels) = Len(true_labels)
          /\ Len(predicted_labels) = Cardinality(SurvivingWords)
          /\ true_labels = SubSeq(ex_labels, 1, Cardinality(SurvivingWords))
          /\ warned <=> (Len(predicted_labels) # Len(ex_labels))

\* a two-word example cut inside its first word was reconstructed: one label
\* retained, the mismatch logged
C18_Witness ==
    /\ fpc = "predicted"
    /\ warned
    /\ Len(ex_labels) = 2
    /\ Len(ex_pieces[1]) = 2
    /\ max_seq_length = 3
    /\ predicted_labels = <<"B-PER">>
    /\ true_labels = <<"S-PER">>

\* C11: when every clean label seen by evaluate_model_unsupervised is "O" it
\* returns (0, 0, 0), and the evaluation of the epoch that uses the result
\* raises no division error, whatever the supervised F1.
C11_DegenerateScoringRecoverable ==
    (unsup_eval.called /\ unsup_eval.all_O) =>
        /\ unsup_eval.returned = <<0, 0, 0>>
        /\ ~(pc = "error" /\ error.type = "ZeroDivisionError")

\* the files the claim names: checkpoint, feature caches, prediction file
GuardedFiles == {"checkpoint", "cache", "predictions"}

\* C13: a worker of a distributed run other than rank 0 never writes a
\* checkpoint, a feature cache or a prediction file.
C13_OnlyRankZeroWritesFiles ==
    args.local_rank > 0 => work \cap GuardedFiles = {}

\* C20: with --evaluate_each_epoch an evaluation has been run after every
\* completed epoch of the training loop.
C20_EvaluationAfterEveryEpoch ==
    (args.evaluate_each_epoch /\ pc = "epoch") => n_evals = epoch

\* the list the conversion of the corpus gives, as a run without cache file
\* computes it
ConvertedNow ==
    <<FeatureOf(ex_pieces, ex_labels, build_labels_dict(build_labels(label_set)),
                max_seq_length, kind = "labeled")>>

\* C12: when the cache file is missing or does not deserialize, for the
\* labeled and for the unlabeled corpus: reading it raises nothing that ends
\* the run; the features used are the ones converted from the examples, as
\* in a run without cache file, and the cache file holds them afterwards
\* (written by the single process or by rank 0).  The run only ends in the
\* conversion's own length assertion, which needs max_seq_length < 2.
C12_CacheFailureRecomputes ==
    (cpc # "start" /\ cache_found.state \in {"missing", "corrupt"}) =>
        /\ cpc \in {"loaded", "assert_failed"}
        /\ cpc = "assert_failed" <=> max_seq_length < 2
        /\ cpc = "loaded" =>
              /\ features = ConvertedNow
              /\ is_rank_zero_or_single(worker_rank) => cache_file = PickleOf(ConvertedNow)
              /\ ~is_rank_zero_or_single(worker_rank) => cache_file = cache_found

\* a cache file that did not deserialize was replaced by the converted
\* features of an unlabeled two-word corpus
C12_Witness ==
    /\ cpc = "loaded"
    /\ kind = "unlabeled"
    /\ cache_found = CorruptFile
    /\ Len(ex_pieces) = 2
    /\ features = ConvertedNow
    /\ cache_file = PickleOf(features)
    /\ Len(features[1].input_ids) = max_seq_length

\* the step in progress (or the last one) had nothing to train on: a
\* scheduler is configured and tsa.apply kept no position of the batch
EmptySelection ==
    /\ tsa # NoTSA
    /\ sup_passes > 0
    /\ retained = {}

BeforeConsistency == spc \in {"clean", "perturbed", "consistency"}

Occurrences(seq, x) == Cardinality({i \in DOMAIN seq : seq[i] = x})

\* C16: the pairs (example, position) that enter the mean-squared error of
\* a step are exactly those whose loss_mask entry is 1, each once, the same
\* pair of the clean and of the perturbed prediction.
C16_ConsistencyOverMaskedPairs ==
    spc = "backward" =>
        /\ \A b \in DOMAIN loss_mask : \A p \in DOMAIN loss_mask[b] :
              Occurrences(mse_pairs, <<b - 1, p - 1>>) = loss_mask[b][p]
        /\ \A i \in DOMAIN mse_pairs :
              /\ mse_pairs[i][1] + 1 \in DOMAIN loss_mask
              /\ mse_pairs[i][2] + 1 \in DOMAIN loss_mask[1]

\* a / b as fractions [num, den]
FracEq(a, n, d) == a.den > 0 /\ a.num * d = n * a.den

FracLeq(a, b) == a.den > 0 /\ b.den > 0 /\ a.num * b.den <= b.num * a.den

\* one of the four shapes is configured; K and T as the loop passes them
\* (lines 750-751)
FourShapes == tsa_args.descriptor.name \in {"log", "linear", "exp", "constant"}

PassedK == tsa_args.descriptor.last

PassedT == tsa_args.num_train_epochs * tsa_args.len_train_dataloader

C21_LenIsNumberOfIds ==
    (n_builds > 0 /\ built_from = label_set) =>
        /\ LabelVocab_len(label_set) = Len(labels)
        /\ \A l \in DOMAIN labels_dict : labels_dict[l] < LabelVocab_len(label_set)

\* C22: the optimizer steps performed never exceed the planned total
\* num_train_optimization_steps, and the planned total is positive once an
\* optimizer step has been performed.
C22_StepsWithinPlan ==
    /\ global_step <= num_train_optimization_steps
    /\ global_step > 0 => num_train_optimization_steps > 0

\* the final prediction phase of a training run has loaded the checkpoint
\* (pc is "done" only after FinalPrediction, "predictions" are its output)
FinalLoadAfterTraining ==
    /\ pc = "done"
    /\ args.do_train
    /\ args.do_predict
    /\ rank_zero_or_single

\* C23: when the final prediction phase of a run with do_train and
\* do_predict has loaded the checkpoint, the training loop of this run wrote
\* it, whatever the F1 values, the early stopping and the number of epochs.
C23_LoadedCheckpointWasWritten ==
    FinalLoadAfterTraining =>
        /\ ckpt_writes > 0
        /\ checkpoint_on_disk
        /\ "checkpoint" \in work

\* the final phase loaded what an evaluation with a better F1 had saved
C23_Witness ==
    /\ FinalLoadAfterTraining
    /\ args.evaluate_each_epoch
    /\ "predictions" \in work
    /\ ckpt_writes = 1

\* C24: every id the trained model can put out is decoded, by the vocabulary
\* of the evaluation examples, to the label the id had in training, and the
\* decoding stays inside the vocabulary.
C24_DecodesAsEncoded ==
    dpc = "decoded" =>
        /\ decoded.label # "IndexError"
        /\ decoded.label = decoded.trained

\* C5: once build() has assigned ids, no later update() or build() changes
\* the id of a label that already has one.
C5_AssignedIdsNeverChange ==
    [][\A l \in DOMAIN labels_dict :
          l \in DOMAIN labels_dict' /\ labels_dict'[l] = labels_dict[l]]_vars

====
